---------------------------- MODULE Spec2Model ----------------------------
(***************************************************************************)
(* Model of tools/cdata.js, the build-time packer that turns the web UI    *)
(* sources into C headers.                                                 *)
(*                                                                         *)
(* Text is modelled by TLA+ strings (JavaScript strings of ASCII code      *)
(* units), buffers by sequences of bytes 0..255.  The JavaScript built-ins *)
(* the script relies on (indexOf, split/join, replace, toString, padStart, *)
(* substring) are operators that compute what the built-in computes.       *)
(***************************************************************************)
EXTENDS Integers, Sequences, FiniteSets, TLC

VARIABLES
    pc,          \* control position of the running code
    packageJson, \* require("../package.json"): version and repository
    disk,        \* the source files: path -> [exists, data]
    script,      \* the top-level statements of the run
    stmt,        \* 1-based index of the statement running, or next to run
    k,           \* writeChunks: 1-based index of the forEach iteration
    src,         \* writeChunks: the text accumulated so far
    buf,         \* specToChunk: the buffer read
    decoded,     \* specToChunk: str, the buffer decoded
    adopted,     \* filter: str after adoptVersionAndRepo
    filterRet,   \* filter: its return value
    wrapped,     \* specToChunk: chunk, the template filled in
    ret,         \* specToChunk: the return value, <<>> for undefined
    stages,      \* the stages the current spec went through, in order
    files,       \* the result files written: path -> text
    writes,      \* the paths fs.writeFileSync was called with, in order
    warned,      \* what console.warn was called with, in order
    inliner,     \* the inliner started by writeHtmlGzipped
    gzip,        \* the zlib.gzip call started by the inliner callback
    thrown,      \* the error that ended the process, "" when none did
    hexIn,       \* argument of a stand-alone hexdump call
    hexOut,      \* its return value
    adoptIn,     \* argument of a stand-alone adoptVersionAndRepo call
    adoptOut     \* its return value

env == <<packageJson, disk>>
locals == <<buf, decoded, adopted, filterRet, wrapped, ret, stages>>
written == <<files, writes>>
async == <<inliner, gzip, thrown>>
pureVars == <<hexIn, hexOut, adoptIn, adoptOut>>
runVars == <<disk, script, stmt, k, src, locals, written, warned, async>>
vars == <<pc, packageJson, runVars, pureVars>>

---------------------------------------------------------------------------
(* JavaScript string built-ins                                             *)

Min(S) == CHOOSE x \in S : \A y \in S : x <= y
Max(S) == CHOOSE x \in S : \A y \in S : x >= y

\* str.charAt(i - 1): the i-th code unit, 1-based
charAt(str, i) == SubSeq(str, i, i)

\* str.substring(from - 1): the text from the from-th code unit on
substringFrom(str, from) == SubSeq(str, from, Len(str))

\* the 1-based positions at which pat occurs in str, at or after from
occurrences(str, pat, from) ==
    { i \in from..(Len(str) - Len(pat) + 1) : SubSeq(str, i, i + Len(pat) - 1) = pat }

\* str.indexOf(pat, from - 1) + 1: 0 when pat does not occur
indexOf(str, pat, from) ==
    LET I == occurrences(str, pat, from) IN IF I = {} THEN 0 ELSE Min(I)

\* str.lastIndexOf(pat) + 1, among the occurrences at or after from
lastIndexOf(str, pat, from) ==
    LET I == occurrences(str, pat, from) IN IF I = {} THEN 0 ELSE Max(I)

\* str.includes(pat)
includes(str, pat) == indexOf(str, pat, 1) # 0

\* str.startsWith(pat), str.endsWith(pat)
startsWith(str, pat) == Len(pat) <= Len(str) /\ SubSeq(str, 1, Len(pat)) = pat
endsWith(str, pat) ==
    Len(pat) <= Len(str) /\ SubSeq(str, Len(str) - Len(pat) + 1, Len(str)) = pat

\* str.split(search).join(replacement), search not empty: split cuts at every
\* occurrence found scanning left to right, each scan resuming after the
\* previous occurrence
RECURSIVE strReplace(_, _, _)
strReplace(str, search, replacement) ==
    LET p == indexOf(str, search, 1) IN
    IF p = 0 THEN str
    ELSE SubSeq(str, 1, p - 1) \o replacement
         \o strReplace(substringFrom(str, p + Len(search)), search, replacement)

\* str.replace(search, replacement) with a string pattern: the first
\* occurrence only (the replacements used hold no "$" pattern)
replaceFirst(str, search, replacement) ==
    LET p == indexOf(str, search, 1) IN
    IF p = 0 THEN str
    ELSE SubSeq(str, 1, p - 1) \o replacement
         \o substringFrom(str, p + Len(search))

\* str.replace(/open.*close/gms, replacement) for literal open and close:
\* with the s flag ".*" is greedy over every character, so the one match runs
\* from the first open to the last close after it
replaceSpan(str, open, close, replacement) ==
    LET p == indexOf(str, open, 1)
        q == IF p = 0 THEN 0 ELSE lastIndexOf(str, close, p + Len(open))
    IN  IF q = 0 THEN str
        ELSE SubSeq(str, 1, p - 1) \o replacement
             \o substringFrom(str, q + Len(close))

\* str.substring(0, n)
substring0(str, n) == SubSeq(str, 1, Min({n, Len(str)}))

---------------------------------------------------------------------------
(* Code units and bytes                                                    *)

\* the printable ASCII characters in code order, 0x20..0x5f and 0x61..0x7e
\* (a TLA+ string cannot hold the grave accent, 0x60)
PrintableLow == " !\"#$%&'()*+,-./0123456789:;<=>?@ABCDEFGHIJKLMNOPQRSTUVWXYZ[\\]^_"
PrintableHigh == "abcdefghijklmnopqrstuvwxyz{|}~"

\* String.fromCharCode(c), c newline or printable
chr(c) ==
    IF c = 10 THEN "\n"
    ELSE IF c < 96 THEN charAt(PrintableLow, c - 31)
    ELSE charAt(PrintableHigh, c - 96)

\* ch.charCodeAt(0)
ord(ch) ==
    IF ch = "\n" THEN 10
    ELSE IF includes(PrintableLow, ch) THEN 31 + indexOf(PrintableLow, ch, 1)
    ELSE 96 + indexOf(PrintableHigh, ch, 1)

\* the concatenation of f[lo] .. f[hi], f a function to strings
RECURSIVE concat(_, _, _)
concat(f, lo, hi) ==
    IF lo > hi THEN ""
    ELSE IF lo = hi THEN f[lo]
    ELSE LET mid == (lo + hi) \div 2
         IN  concat(f, lo, mid) \o concat(f, mid + 1, hi)

\* the code units of a string
codes(str) == [i \in 1..Len(str) |-> ord(charAt(str, i))]

\* buf.toString("ascii"): Node clears the highest bit of each byte, then
\* decodes the byte as one code unit
toStringAscii(buffer) ==
    concat([i \in 1..Len(buffer) |-> chr(buffer[i] % 128)], 1, Len(buffer))

---------------------------------------------------------------------------
(* hexdump, lines 24-41                                                    *)

BlockSize == 16

HexDigits == "0123456789abcdef"

\* value.toString(16), value a byte
RECURSIVE toString16(_)
toString16(value) ==
    IF value < 16 THEN charAt(HexDigits, value + 1)
    ELSE toString16(value \div 16) \o charAt(HexDigits, (value % 16) + 1)

\* s.padStart(n, "0")
RECURSIVE padStart0(_, _)
padStart0(s, n) == IF Len(s) >= n THEN s ELSE padStart0("0" \o s, n)

\* array.join(sep), array a sequence of strings
joinWith(array, sep) ==
    concat([i \in 1..Len(array) |-> IF i = 1 THEN array[i] ELSE sep \o array[i]],
           1, Len(array))

\* line 32, with the padding dropped
hexByteUnpadded(value) == "0x" \o toString16(value)

\* line 32: "0x" + value.toString(16).padStart(2, "0")
hexByte(value) == "0x" \o padStart0(toString16(value), 2)

\* lines 28-36: one block of up to 16 bytes as a line
hexLine(block) ==
    "  " \o joinWith([j \in 1..Len(block) |-> hexByte(block[j])], ", ")

\* lines 24-41: blocks are buffer.slice(i, i + 16) for i = 0, 16, 32, ...
hexdump(buffer) ==
    LET nblocks == (Len(buffer) + BlockSize - 1) \div BlockSize
        block(b) == SubSeq(buffer, (b - 1) * BlockSize + 1,
                           Min({b * BlockSize, Len(buffer)}))
    IN  joinWith([b \in 1..nblocks |-> hexLine(block(b))], ",\n")

---------------------------------------------------------------------------
(* adoptVersionAndRepo, lines 46-66                                        *)

VersionToken == "##VERSION##"
UpstreamAtuline == "https://github.com/atuline/WLED"
UpstreamAircoookie == "https://github.com/Aircoookie/WLED"

\* repoUrl.replace(/^git\+/, "")
stripGitPlus(url) == IF startsWith(url, "git+") THEN substringFrom(url, 5) ELSE url

\* repoUrl.replace(/\.git$/, "")
stripDotGit(url) == IF endsWith(url, ".git") THEN SubSeq(url, 1, Len(url) - 4) ELSE url

\* lines 51-54: packageJson.repository is a sequence of at most one record,
\* empty when the key is absent; "" stands for undefined (both are falsy)
repoUrlOf(pkg) ==
    IF pkg.repository = <<>> THEN ""
    ELSE IF pkg.repository[1].url = "" THEN ""
    ELSE stripDotGit(stripGitPlus(pkg.repository[1].url))

\* lines 50-66 with replace (first occurrence) in place of split/join
adoptVersionFirstOnly(html, pkg) ==
    LET repoUrl == repoUrlOf(pkg)
        h1 == IF repoUrl # ""
              THEN strReplace(strReplace(html, UpstreamAtuline, repoUrl),
                              UpstreamAircoookie, repoUrl)
              ELSE html
    IN  IF pkg.version # "" THEN replaceFirst(h1, VersionToken, pkg.version) ELSE h1

\* lines 50-66
adoptVersionAndRepo(html, pkg) ==
    LET repoUrl == repoUrlOf(pkg)
        h1 == IF repoUrl # ""
              THEN strReplace(strReplace(html, UpstreamAtuline, repoUrl),
                              UpstreamAircoookie, repoUrl)
              ELSE html
    IN  IF pkg.version # "" THEN strReplace(h1, VersionToken, pkg.version) ELSE h1

---------------------------------------------------------------------------
(* filter, lines 107-130.  CleanCSS and html-minifier are libraries; of    *)
(* what they do the model keeps the whitespace collapsing and, for         *)
(* html-minifier with continueOnParseError: false, the parse error thrown  *)
(* at a "<" that opens no tag.                                             *)

RECURSIVE collapseSpaces(_)
collapseSpaces(str) ==
    IF includes(str, "  ") THEN collapseSpaces(strReplace(str, "  ", " ")) ELSE str

\* line 116: new CleanCSS({}).minify(str).styles
CleanCSSMinify(str) ==
    strReplace(strReplace(collapseSpaces(strReplace(str, "\n", "")), " {", "{"),
               "{ ", "{")

\* where html-minifier's parser stops: a "<" followed by a blank
parseErrorAt(str) == indexOf(str, "< ", 1)

\* lines 118-125: MinifyHTML(str, {collapseWhitespace: true, ...,
\* continueOnParseError: false, ...}); threw tells whether it threw
MinifyHTML(str) ==
    IF parseErrorAt(str) # 0
    THEN [threw |-> TRUE, value |-> "",
          message |-> "Parse Error: " \o substringFrom(str, parseErrorAt(str))]
    ELSE [threw |-> FALSE, value |-> collapseSpaces(strReplace(str, "\n", " ")),
          message |-> ""]

\* lines 113-129, the part of filter after adoptVersionAndRepo: type is <<>>
\* for undefined and <<name>> otherwise; warned is what console.warn got
namedFilter(str, type) ==
    IF type = <<>>
    THEN [threw |-> FALSE, value |-> str, message |-> "", warned |-> <<>>]
    ELSE IF type[1] = "css-minify"
    THEN [threw |-> FALSE, value |-> CleanCSSMinify(str), message |-> "",
          warned |-> <<>>]
    ELSE IF type[1] = "html-minify"
    THEN [threw |-> MinifyHTML(str).threw, value |-> MinifyHTML(str).value,
          message |-> MinifyHTML(str).message, warned |-> <<>>]
    ELSE [threw |-> FALSE, value |-> str, message |-> "",
          warned |-> <<"Unknown filter: " \o type[1]>>]

---------------------------------------------------------------------------
(* The mangle functions of the spec lists, lines 205-363                   *)

\* lines 205-208 (PAGE_settings): replace with a string pattern, then a
\* global replace of a pattern without wildcards
mangleSettings(str) ==
    strReplace(replaceFirst(str, "%", "%%"),
               "User Interface</button></form>",
               "User Interface</button></form>%DMXMENU%")

\* lines 219-220 (again 235-236, 251-252, 275-276, 291-292, 304-305, 317-318)
stripStyles(str) ==
    replaceSpan(replaceSpan(str, "<link rel=\"stylesheet\"", ">", ""),
                "<style>", "</style>", "%CSS%%SCSS%")

\* lines 217-224 (again 233-240, 273-280, 315-322): in /function GetV().*/
\* the parentheses are an empty group, they match no text
mangleGetVDocument(str) ==
    replaceSpan(stripStyles(str), "function GetV", "</script>",
                "function GetV() {var d=document;\n")

\* lines 289-293 (again 302-306)
mangleGetV(str) ==
    replaceSpan(stripStyles(str), "function GetV", "</script>", "function GetV() {\n")

\* lines 249-264 (PAGE_settings_dmx)
mangleSettingsDmx(str) ==
    "\n#ifdef WLED_ENABLE_DMX\n" \o mangleGetVDocument(str)
    \o "\n#else\nconst char PAGE_settings_dmx[] PROGMEM = R\"=====()=====\";\n#endif\n"

\* lines 338-339 (PAGE_usermod)
mangleUsermod(str) == replaceSpan(str, "fetch(\"http://", "/win", "fetch(\"/win")

\* line 348 (PAGE_msg)
mangleMsg(str) == replaceSpan(str, "<h2>", "</body>", "<h2>%MSG%</body>")

\* lines 357-363 (PAGE_dmxmap): /function FM\(\)[ ]?\{/g matches the text with
\* and without the blank
mangleDmxmap(str) ==
    "\n#ifdef WLED_ENABLE_DMX\n"
    \o strReplace(strReplace(str, "function FM() {", "function FM() {%DMXVARS%\n"),
                  "function FM(){", "function FM() {%DMXVARS%\n")
    \o "\n#else\nconst char PAGE_dmxmap[] PROGMEM = R\"=====()=====\";\n#endif\n"

\* s.mangle(chunk): a spec names its mangle function, "" when it has none
applyMangle(mangle, chunk) ==
    CASE mangle = "settings" -> mangleSettings(chunk)
      [] mangle = "getVDocument" -> mangleGetVDocument(chunk)
      [] mangle = "getV" -> mangleGetV(chunk)
      [] mangle = "settingsDmx" -> mangleSettingsDmx(chunk)
      [] mangle = "usermod" -> mangleUsermod(chunk)
      [] mangle = "msg" -> mangleMsg(chunk)
      [] mangle = "dmxmap" -> mangleDmxmap(chunk)
      [] OTHER -> chunk

---------------------------------------------------------------------------
(* specToChunk, lines 132-160, and the texts of writeChunks and            *)
(* writeHtmlGzipped                                                        *)

\* lines 136-142: prepend and append are "" when the spec has none
plaintextChunk(srcDir, s, filtered) ==
    "\n// Autogenerated from " \o srcDir \o "/" \o s.file \o ", do not edit!!\n"
    \o "const char " \o s.name \o "[] PROGMEM = R\"" \o s.prepend \o filtered
    \o s.append \o "\";\n\n"

\* lines 146-154: result is the string hexdump returned
binaryChunk(srcDir, s, result) ==
    "\n// Autogenerated from " \o srcDir \o "/" \o s.file \o ", do not edit!!\n"
    \o "const uint16_t " \o s.name \o "_length = " \o ToString(Len(result)) \o ";\n"
    \o "const uint8_t " \o s.name \o "[] PROGMEM = {\n" \o result \o "\n};\n\n"

\* lines 163-169
ChunksHeader ==
    "/*\n * More web UI HTML source arrays.\n"
    \o " * This file is auto generated, please don't make any changes manually.\n"
    \o " * Instead, see https://github.com/Aircoookie/WLED/wiki/Add-own-functionality#web-ui\n"
    \o " * to find out how to easily modify the web UI source!\n */ \n"

\* lines 86-100: result is the buffer gzip produced
uiSource(sourceFile, result) ==
    "/*\n * Binary array for the Web UI.\n"
    \o " * gzip is used for smaller size and improved speeds.\n * \n"
    \o " * Please see https://github.com/Aircoookie/WLED/wiki/Add-own-functionality#web-ui\n"
    \o " * to find out how to easily modify the web UI source!\n */\n \n"
    \o "// Autogenerated from " \o sourceFile \o ", do not edit!!\n"
    \o "const uint16_t PAGE_index_L = " \o ToString(Len(result)) \o ";\n"
    \o "const uint8_t PAGE_index[] PROGMEM = {\n" \o hexdump(result) \o "\n};\n"

\* fs.readFileSync on a missing file: the message of the error thrown
enoent(path) == "ENOENT: no such file or directory, open '" \o path \o "'"

\* lines 175-178: the warning of the catch block
failedWarning(srcDir, s, message) ==
    "Failed " \o s.name \o " from " \o srcDir \o "/" \o s.file \o " "
    \o (IF Len(message) > 60 THEN substring0(message, 60) ELSE message)

\* lines 132-160 as one function of the spec, the source directory dsk and
\* package.json: threw tells whether an error was thrown, ret is the value
\* returned, <<>> for undefined
specToChunk(srcDir, s, dsk, pkg) ==
    LET file == srcDir \o "/" \o s.file
        f == namedFilter(adoptVersionAndRepo(toStringAscii(dsk[file].data), pkg),
                         s.filter)
        mangled(c) == IF s.mangle # "" THEN applyMangle(s.mangle, c) ELSE c
    IN  IF s.method \notin {"plaintext", "binary"}
        THEN [threw |-> FALSE, ret |-> <<>>]
        ELSE IF ~dsk[file].exists
        THEN [threw |-> TRUE, ret |-> <<>>]
        ELSE IF s.method = "binary"
        THEN [threw |-> FALSE,
              ret |-> <<mangled(binaryChunk(srcDir, s, hexdump(dsk[file].data)))>>]
        ELSE IF f.threw
        THEN [threw |-> TRUE, ret |-> <<>>]
        ELSE [threw |-> FALSE, ret |-> <<mangled(plaintextChunk(srcDir, s, f.value))>>]

---------------------------------------------------------------------------
(* The invocations, lines 185-396                                          *)

PlainSpec(file, name, filter, mangle) ==
    [file |-> file, name |-> name, prepend |-> "=====(", append |-> ")=====",
     method |-> "plaintext", filter |-> <<filter>>, mangle |-> mangle]

\* lines 189-324
SettingsSpecs ==
    << [file |-> "style.css", name |-> "PAGE_settingsCss",
        prepend |-> "=====(<style>", append |-> "</style>)=====",
        method |-> "plaintext", filter |-> <<"css-minify">>, mangle |-> ""],
       PlainSpec("settings.htm", "PAGE_settings", "html-minify", "settings"),
       PlainSpec("settings_wifi.htm", "PAGE_settings_wifi", "html-minify", "getVDocument"),
       PlainSpec("settings_leds.htm", "PAGE_settings_leds", "html-minify", "getVDocument"),
       PlainSpec("settings_dmx.htm", "PAGE_settings_dmx", "html-minify", "settingsDmx"),
       PlainSpec("settings_ui.htm", "PAGE_settings_ui", "html-minify", "getVDocument"),
       PlainSpec("settings_sync.htm", "PAGE_settings_sync", "html-minify", "getV"),
       PlainSpec("settings_time.htm", "PAGE_settings_time", "html-minify", "getV"),
       PlainSpec("settings_sec.htm", "PAGE_settings_sec", "html-minify", "getVDocument") >>

\* lines 330-394
OtherSpecs ==
    << PlainSpec("usermod.htm", "PAGE_usermod", "html-minify", "usermod"),
       PlainSpec("msg.htm", "PAGE_msg", "html-minify", "msg"),
       PlainSpec("dmxmap.htm", "PAGE_dmxmap", "html-minify", "dmxmap"),
       PlainSpec("update.htm", "PAGE_update", "html-minify", ""),
       PlainSpec("welcome.htm", "PAGE_welcome", "html-minify", ""),
       PlainSpec("liveview.htm", "PAGE_liveview", "html-minify", ""),
       [file |-> "favicon.ico", name |-> "favicon", prepend |-> "", append |-> "",
        method |-> "binary", filter |-> <<>>, mangle |-> ""] >>

HtmlGzippedCall(sourceFile, resultFile) ==
    [fn |-> "writeHtmlGzipped", sourceFile |-> sourceFile, srcDir |-> "",
     specs |-> <<>>, resultFile |-> resultFile]

ChunksCall(srcDir, specs, resultFile) ==
    [fn |-> "writeChunks", sourceFile |-> "", srcDir |-> srcDir,
     specs |-> specs, resultFile |-> resultFile]

\* lines 185-396: the three statements the script runs
Script ==
    << HtmlGzippedCall("wled00/data/index.htm", "wled00/html_ui.h"),
       ChunksCall("wled00/data", SettingsSpecs, "wled00/html_settings.h"),
       ChunksCall("wled00/data", OtherSpecs, "wled00/html_other.h") >>

---------------------------------------------------------------------------
(* Inputs                                                                  *)

\* package.json as the script may find it
PackageJsons ==
    { [version |-> v, repository |-> r] :
        v \in {"1.2.3", "0.10.2", ""},
        r \in { <<>>,
                <<[url |-> "git+https://github.com/Ecstxsy/WLED.git"]>>,
                <<[url |-> "git+https://github.com/Aircoookie/WLED.git"]>> } }

\* longest buffer handed to a stand-alone hexdump call
MaxBufLen == 34

\* buffers: every length up to MaxBufLen, bytes running from a start value in
\* steps of a stride, modulo 256
Buffers ==
    { [i \in 1..n |-> (start + (i - 1) * stride) % 256] :
        n \in 0..MaxBufLen, start \in {0, 9, 250}, stride \in {1, 17} }

\* most fragments a document is put together from
MaxFragments == 3

Fragments ==
    { "##VERSION##", "##VERSION", "#", "v", UpstreamAircoookie, UpstreamAtuline,
      "/wiki" }

RECURSIVE Documents(_)
Documents(n) ==
    IF n = 0 THEN {""}
    ELSE LET D == Documents(n - 1)
         IN  D \cup { d \o f : d \in D, f \in Fragments }

---------------------------------------------------------------------------
(* Source files                                                            *)

SrcDir == "wled00/data"

\* str encoded as ASCII, one byte per code unit
bytesOf(str) == codes(str)

SettingsPage(title) ==
    "<html><head><script>function B(){}function GetV(){var d=document;}</script>\n"
    \o "<style>a {color:#fff}</style></head>\n<body>" \o title \o "</body></html>\n"

\* a small file of each name the script reads
BaseContent(file) ==
    CASE file = "style.css" -> bytesOf("body {\n  color: #fff;\n}\n")
      [] file = "settings.htm" ->
            bytesOf("<html>\n<body>\n<button style=\"width:50%\">Back</button>\n"
                    \o "<form action=\"/\"><button type=\"submit\">User Interface</button></form>\n"
                    \o "<b>100%</b> ##VERSION##\n</body>\n</html>\n")
      [] file = "usermod.htm" ->
            bytesOf("<html><script>fetch(\"http://192.168.4.1/win&T=2\")</script></html>")
      [] file = "msg.htm" -> bytesOf("<html><body><h2>Sample message.</h2></body></html>")
      [] file = "dmxmap.htm" ->
            bytesOf("<html><script>function FM() {var x=1;}</script></html>")
      [] file = "update.htm" -> bytesOf("<html><body>WLED ##VERSION## update</body></html>")
      [] file = "welcome.htm" ->
            bytesOf("<html><body>Welcome  to\nhttps://github.com/Aircoookie/WLED</body></html>")
      [] file = "liveview.htm" -> bytesOf("<html><body>live</body></html>")
      [] file = "favicon.ico" -> <<0, 0, 1, 0, 1, 0, 16, 16, 0, 0, 1, 0, 32, 0, 104, 4, 0, 0>>
      [] OTHER -> bytesOf(SettingsPage(file))

\* other contents: markup html-minifier cannot parse, text beyond 7-bit ASCII
\* (0xe9 and 0xef, Latin-1 for e acute and i diaeresis), an empty icon
OddContent(file) ==
    CASE file = "update.htm" -> bytesOf("<html>if a < b</html>")
      [] file = "welcome.htm" ->
            bytesOf("caf") \o <<233>> \o bytesOf(" na") \o <<239>> \o bytesOf("ve ##VERSION##")
      [] file = "favicon.ico" -> <<>>
      [] OTHER -> BaseContent(file)

FileNames ==
    { SettingsSpecs[i].file : i \in 1..Len(SettingsSpecs) }
    \cup { OtherSpecs[i].file : i \in 1..Len(OtherSpecs) }

MissingSets == { {}, {"settings.htm"}, {"favicon.ico", "welcome.htm"} }

\* the source directory as the script may find it
Disks ==
    { [path \in { SrcDir \o "/" \o f : f \in FileNames } |->
         LET f == substringFrom(path, Len(SrcDir) + 2) IN
         [exists |-> f \notin missing,
          data |-> IF f \in missing THEN <<>>
                   ELSE IF odd THEN OddContent(f) ELSE BaseContent(f)]] :
        missing \in MissingSets, odd \in BOOLEAN }

RunPackageJsons ==
    { [version |-> "1.2.3",
       repository |-> <<[url |-> "git+https://github.com/Ecstxsy/WLED.git"]>>],
      [version |-> "", repository |-> <<>>] }

\* what the inliner may call back with: an error ("" for none) and the
\* document (<<>> for undefined)
InlinerResults ==
    { [error |-> "", html |-> <<"<html><body>WLED ##VERSION##</body></html>">>],
      [error |-> "", html |-> <<"<html><a href=\"https://github.com/Aircoookie/WLED\">WLED</a></html>">>],
      [error |-> "ENOENT: no such file or directory, open 'wled00/data/index.js'",
       html |-> <<>>],
      [error |-> "Error: connect ETIMEDOUT", html |-> <<"<html><body>">>] }

\* what zlib.gzip may call back with: an error ("" for none) and the buffer
GzipResults ==
    { [error |-> "", result |-> <<31, 139, 8, 0, 0, 0, 0, 0, 2, 3, 179, 201, 40, 201, 205, 177, 227, 2, 0>>],
      [error |-> "", result |-> <<31, 139, 8, 0, 0, 0, 0, 0, 2, 3>>],
      [error |-> "Error: zlib: out of memory", result |-> <<>>] }

\* specs writeChunks may be given besides the script's own
SampleSpecs ==
    { SettingsSpecs[2], OtherSpecs[3], OtherSpecs[4], OtherSpecs[7],
      [file |-> "welcome.htm", name |-> "PAGE_raw", prepend |-> "=====(",
       append |-> ")=====", method |-> "plaintext", filter |-> <<>>, mangle |-> ""],
      [file |-> "msg.htm", name |-> "PAGE_gz", prepend |-> "", append |-> "",
       method |-> "gzip", filter |-> <<>>, mangle |-> ""],
      [file |-> "style.css", name |-> "PAGE_css", prepend |-> "", append |-> "",
       method |-> "plaintext", filter |-> <<"js-minify">>, mangle |-> ""] }

\* longest spec list given to a stand-alone writeChunks call
MaxSpecs == 2

RECURSIVE SpecLists(_)
SpecLists(n) ==
    IF n = 0 THEN {<<>>}
    ELSE LET L == SpecLists(n - 1)
         IN  L \cup { Append(l, sp) : l \in L, sp \in SampleSpecs }

---------------------------------------------------------------------------
(* The run: the top-level statements, then the callbacks                   *)

NotRun == "not run"

NoFiles == [path \in {} |-> ""]

PureIdle ==
    /\ hexIn = <<>>
    /\ hexOut = NotRun
    /\ adoptIn = ""
    /\ adoptOut = NotRun

InitLocals ==
    /\ k = 0
    /\ src = ""
    /\ buf = <<>>
    /\ decoded = ""
    /\ adopted = ""
    /\ filterRet = ""
    /\ wrapped = ""
    /\ ret = <<>>
    /\ stages = <<>>
    /\ files = NoFiles
    /\ writes = <<>>
    /\ warned = <<>>
    /\ stmt = 1
    /\ inliner = [state |-> "idle", sourceFile |-> "", resultFile |-> "",
                  error |-> "", html |-> <<>>]
    /\ gzip = [state |-> "idle", input |-> "", error |-> ""]
    /\ thrown = ""

\* the script is started: node tools/cdata.js
Init ==
    /\ pc = "top"
    /\ packageJson \in RunPackageJsons
    /\ disk \in Disks
    /\ script = Script
    /\ InitLocals
    /\ PureIdle

\* writeChunks is called with some spec list
InitChunks ==
    /\ pc = "top"
    /\ packageJson \in RunPackageJsons
    /\ disk \in Disks
    /\ script \in { <<ChunksCall(SrcDir, l, "wled00/html_test.h")>> : l \in SpecLists(MaxSpecs) }
    /\ InitLocals
    /\ PureIdle

\* the statement running, the spec of the current iteration, its file
cur == script[stmt]
spec == cur.specs[k]
specPath == cur.srcDir \o "/" \o spec.file

\* callbacks run once the top-level code has run to its end
topLevelYields == pc = "top"

topLevelDone == pc = "top" /\ stmt > Len(script)

\* lines 68-70 and 105: writeHtmlGzipped starts the inliner and returns
WriteHtmlGzippedCall ==
    /\ pc = "top" /\ thrown = ""
    /\ stmt <= Len(script) /\ cur.fn = "writeHtmlGzipped"
    /\ inliner' = [inliner EXCEPT !.state = "pending",
                                  !.sourceFile = cur.sourceFile,
                                  !.resultFile = cur.resultFile]
    /\ stmt' = stmt + 1
    /\ UNCHANGED <<pc, env, script, k, src, locals, written, warned, gzip, thrown,
                   pureVars>>

\* lines 70-79 and 104: the inliner calls back
InlinerCallback ==
    /\ topLevelDone /\ thrown = ""
    /\ inliner.state = "pending"
    /\ \E r \in InlinerResults :
         /\ inliner' = [inliner EXCEPT !.state = "done", !.error = r.error,
                                       !.html = r.html]
         /\ IF r.html = <<>>
            THEN \* line 71: html.length of undefined
                 /\ thrown' = "TypeError: Cannot read property 'length' of undefined"
                 /\ UNCHANGED <<warned, gzip>>
            ELSE IF r.error # ""
            THEN \* lines 73-76
                 /\ warned' = Append(warned, r.error)
                 /\ thrown' = r.error
                 /\ UNCHANGED gzip
            ELSE \* lines 78-79
                 /\ gzip' = [state |-> "pending",
                             input |-> adoptVersionAndRepo(r.html[1], packageJson),
                          error |-> ""]
                 /\ UNCHANGED <<warned, thrown>>
    /\ UNCHANGED <<pc, env, script, stmt, k, src, locals, written, pureVars>>

\* lines 79-103 with the write of line 102 done whatever gzip reported
GzipCallbackAlwaysWrites ==
    /\ topLevelDone /\ thrown = ""
    /\ gzip.state = "pending"
    /\ \E r \in GzipResults :
         /\ gzip' = [gzip EXCEPT !.state = "done", !.error = r.error]
         /\ files' = (inliner.resultFile :> uiSource(inliner.sourceFile, r.result)) @@ files
         /\ writes' = Append(writes, inliner.resultFile)
         /\ IF r.error # ""
            THEN warned' = Append(warned, r.error) /\ thrown' = r.error
            ELSE UNCHANGED <<warned, thrown>>
    /\ UNCHANGED <<pc, env, script, stmt, k, src, locals, inliner, pureVars>>

\* lines 79-103: zlib.gzip calls back
GzipCallback ==
    /\ topLevelDone /\ thrown = ""
    /\ gzip.state = "pending"
    /\ \E r \in GzipResults :
         /\ gzip' = [gzip EXCEPT !.state = "done", !.error = r.error]
         /\ IF r.error # ""
            THEN \* lines 80-83
                 /\ warned' = Append(warned, r.error)
                 /\ thrown' = r.error
                 /\ UNCHANGED written
            ELSE \* lines 85-102
                 /\ files' = (inliner.resultFile
                                :> uiSource(inliner.sourceFile, r.result)) @@ files
                 /\ writes' = Append(writes, inliner.resultFile)
                 /\ UNCHANGED <<warned, thrown>>
    /\ UNCHANGED <<pc, env, script, stmt, k, src, locals, inliner, pureVars>>

\* lines 162-170: writeChunks is entered
WriteChunksCall ==
    /\ pc = "top" /\ thrown = ""
    /\ stmt <= Len(script) /\ cur.fn = "writeChunks"
    /\ src' = ChunksHeader
    /\ k' = 1
    /\ pc' = "forEach"
    /\ UNCHANGED <<env, script, stmt, locals, written, warned, async, pureVars>>

\* lines 170-173: the next spec; specToChunk is called
ForEachNext ==
    /\ pc = "forEach" /\ k <= Len(cur.specs)
    /\ buf' = <<>> /\ decoded' = "" /\ adopted' = "" /\ filterRet' = "" /\ wrapped' = ""
    /\ ret' = <<>> /\ stages' = <<>>
    /\ pc' = "specToChunk"
    /\ UNCHANGED <<env, script, stmt, k, src, written, warned, async, pureVars>>

\* lines 134 and 145: the file is read
ReadFile ==
    /\ pc = "specToChunk" /\ spec.method \in {"plaintext", "binary"}
    /\ disk[specPath].exists
    /\ buf' = disk[specPath].data
    /\ stages' = Append(stages, "read")
    /\ pc' = IF spec.method = "plaintext" THEN "decode" ELSE "hexdump"
    /\ UNCHANGED <<env, script, stmt, k, src, decoded, adopted, filterRet, wrapped,
                   ret, written,
                   warned, async, pureVars>>

\* lines 134 and 145 throw; lines 174-179 catch and the loop goes on
ReadFileThrows ==
    /\ pc = "specToChunk" /\ spec.method \in {"plaintext", "binary"}
    /\ ~disk[specPath].exists
    /\ warned' = Append(warned, failedWarning(cur.srcDir, spec, enoent(specPath)))
    /\ k' = k + 1
    /\ pc' = "forEach"
    /\ UNCHANGED <<env, script, stmt, src, locals, written, async, pureVars>>

\* lines 156-159: neither method; undefined is returned
UnknownMethod ==
    /\ pc = "specToChunk" /\ spec.method \notin {"plaintext", "binary"}
    /\ warned' = Append(warned, "Unknown method: " \o spec.method)
    /\ ret' = <<>>
    /\ pc' = "append"
    /\ UNCHANGED <<env, script, stmt, k, src, buf, decoded, adopted, filterRet,
                   wrapped, stages,
                   written, async, pureVars>>

\* line 135
Decode ==
    /\ pc = "decode"
    /\ decoded' = toStringAscii(buf)
    /\ pc' = "filter"
    /\ UNCHANGED <<env, script, stmt, k, src, buf, adopted, filterRet, wrapped, ret,
                   stages,
                   written, warned, async, pureVars>>

\* line 138 calls filter; line 111
Adopt ==
    /\ pc = "filter"
    /\ adopted' = adoptVersionAndRepo(decoded, packageJson)
    /\ stages' = Append(stages, "substitute")
    /\ pc' = "minify"
    /\ UNCHANGED <<env, script, stmt, k, src, buf, decoded, filterRet, wrapped, ret,
                   written,
                   warned, async, pureVars>>

\* lines 113-129: the named filter returns
NamedFilter ==
    /\ pc = "minify" /\ ~namedFilter(adopted, spec.filter).threw
    /\ filterRet' = namedFilter(adopted, spec.filter).value
    /\ warned' = warned \o namedFilter(adopted, spec.filter).warned
    /\ stages' = Append(stages, "filter")
    /\ pc' = "wrap"
    /\ UNCHANGED <<env, script, stmt, k, src, buf, decoded, adopted, wrapped, ret,
                   written,
                   async, pureVars>>

\* lines 118-125 throw; lines 174-179 catch and the loop goes on
NamedFilterThrows ==
    /\ pc = "minify" /\ namedFilter(adopted, spec.filter).threw
    /\ warned' = Append(warned, failedWarning(cur.srcDir, spec,
                                              namedFilter(adopted, spec.filter).message))
    /\ k' = k + 1
    /\ pc' = "forEach"
    /\ UNCHANGED <<env, script, stmt, src, locals, written, async, pureVars>>

\* lines 136-142
Wrap ==
    /\ pc = "wrap"
    /\ wrapped' = plaintextChunk(cur.srcDir, spec, filterRet)
    /\ stages' = Append(stages, "wrap")
    /\ pc' = "mangle"
    /\ UNCHANGED <<env, script, stmt, k, src, buf, decoded, adopted, filterRet, ret,
                   written,
                   warned, async, pureVars>>

\* lines 146-154
HexdumpFile ==
    /\ pc = "hexdump"
    /\ wrapped' = binaryChunk(cur.srcDir, spec, hexdump(buf))
    /\ stages' = Append(stages, "hexdump")
    /\ pc' = "mangle"
    /\ UNCHANGED <<env, script, stmt, k, src, buf, decoded, adopted, filterRet, ret,
                   written,
                   warned, async, pureVars>>

\* line 143 with mangle given the filterRet text in place of the chunk
MangleFiltered ==
    /\ pc = "mangle"
    /\ ret' = <<IF spec.mangle # ""
                THEN plaintextChunk(cur.srcDir, spec, applyMangle(spec.mangle, filterRet))
                ELSE wrapped>>
    /\ stages' = IF spec.mangle # "" THEN Append(stages, "mangle") ELSE stages
    /\ pc' = "append"
    /\ UNCHANGED <<env, script, stmt, k, src, buf, decoded, adopted, filterRet,
                   wrapped, written,
                   warned, async, pureVars>>

\* lines 143 and 155: s.mangle ? s.mangle(chunk) : chunk
Mangle ==
    /\ pc = "mangle"
    /\ ret' = <<IF spec.mangle # "" THEN applyMangle(spec.mangle, wrapped) ELSE wrapped>>
    /\ stages' = IF spec.mangle # "" THEN Append(stages, "mangle") ELSE stages
    /\ pc' = "append"
    /\ UNCHANGED <<env, script, stmt, k, src, buf, decoded, adopted, filterRet,
                   wrapped, written,
                   warned, async, pureVars>>

\* line 173: src += the value returned; undefined is appended as "undefined"
AppendChunk ==
    /\ pc = "append"
    /\ src' = src \o (IF ret = <<>> THEN "undefined" ELSE ret[1])
    /\ k' = k + 1
    /\ pc' = "forEach"
    /\ UNCHANGED <<env, script, stmt, locals, written, warned, async, pureVars>>

\* lines 180-183: the loop is over, the file is written, writeChunks returns
WriteFile ==
    /\ pc = "forEach" /\ k > Len(cur.specs)
    /\ files' = (cur.resultFile :> src) @@ files
    /\ writes' = Append(writes, cur.resultFile)
    /\ stmt' = stmt + 1
    /\ pc' = "top"
    /\ UNCHANGED <<env, script, k, src, locals, warned, async, pureVars>>

\* the steps of writeChunks on a list whose methods are all known
ChunkSteps ==
    \/ WriteChunksCall
    \/ ForEachNext
    \/ ReadFile
    \/ ReadFileThrows
    \/ Decode
    \/ Adopt
    \/ NamedFilter
    \/ NamedFilterThrows
    \/ Wrap
    \/ HexdumpFile
    \/ Mangle
    \/ AppendChunk
    \/ WriteFile

NextChunks ==
    \/ ChunkSteps
    \/ UnknownMethod

\* the script's own lists (lines 189-324, 330-394) hold no unknown method
Next ==
    \/ WriteHtmlGzippedCall
    \/ InlinerCallback
    \/ GzipCallback
    \/ ChunkSteps

Spec == Init /\ [][Next]_vars

SpecChunks == InitChunks /\ [][NextChunks]_vars

---------------------------------------------------------------------------
(* Stand-alone calls of the pure functions                                 *)

RunIdle ==
    /\ disk = NoFiles
    /\ script = <<>>
    /\ InitLocals

InitHexdump ==
    /\ pc = "hexdump.call"
    /\ packageJson = [version |-> "", repository |-> <<>>]
    /\ hexIn \in Buffers
    /\ hexOut = NotRun
    /\ adoptIn = ""
    /\ adoptOut = NotRun
    /\ RunIdle

CallHexdump ==
    /\ pc = "hexdump.call"
    /\ hexOut' = hexdump(hexIn)
    /\ pc' = "hexdump.done"
    /\ UNCHANGED <<packageJson, runVars, hexIn, adoptIn, adoptOut>>

SpecHexdump == InitHexdump /\ [][CallHexdump]_vars

InitAdopt ==
    /\ pc = "adopt.call"
    /\ packageJson \in PackageJsons
    /\ adoptIn \in Documents(MaxFragments)
    /\ adoptOut = NotRun
    /\ hexIn = <<>>
    /\ hexOut = NotRun
    /\ RunIdle

CallAdopt ==
    /\ pc = "adopt.call"
    /\ adoptOut' = adoptVersionAndRepo(adoptIn, packageJson)
    /\ pc' = "adopt.done"
    /\ UNCHANGED <<packageJson, runVars, hexIn, hexOut, adoptIn>>

SpecAdopt == InitAdopt /\ [][CallAdopt]_vars

---------------------------------------------------------------------------
(* C8: hexdump                                                             *)

\* what the claim asks for, byte by byte: the i-th literal is "0x" and the two
\* hexadecimal digits of the i-th byte; it is preceded by the indentation
\* (first of its line) or the separator, a new line starting every 16 literals
ExpectedLiteral(b) ==
    "0x" \o charAt(HexDigits, (b \div 16) + 1) \o charAt(HexDigits, (b % 16) + 1)

ExpectedHexdump(buffer) ==
    concat([i \in 1..Len(buffer) |->
              (IF i = 1 THEN "  "
               ELSE IF (i - 1) % 16 = 0 THEN ",\n  "
               ELSE ", ") \o ExpectedLiteral(buffer[i])],
           1, Len(buffer))

\* C8: for every byte buffer hexdump returns one "0x" + two-hex-digit literal
\* per byte, in buffer order, comma-separated, 16 per line on every line but
\* possibly the last, no trailing separator; the empty buffer gives "".
C8_HexdumpFormat ==
    pc = "hexdump.done" =>
        /\ hexOut = ExpectedHexdump(hexIn)
        /\ (hexIn = <<>> => hexOut = "")
        /\ ~endsWith(hexOut, ",") /\ ~endsWith(hexOut, "\n") /\ ~endsWith(hexOut, " ")

\* a buffer of more than two lines with a byte below 0x10 has been dumped
C8_Witness ==
    /\ pc = "hexdump.done"
    /\ Len(hexIn) > 2 * BlockSize
    /\ \E i \in 1..Len(hexIn) : hexIn[i] < 16
    /\ includes(hexOut, ",\n")

---------------------------------------------------------------------------
(* C7: adoptVersionAndRepo                                                 *)

\* the occurrences of token that a left-to-right scan replaces: an occurrence
\* counts unless it overlaps an earlier one that counts
Replaced(str, token) ==
    LET Occ == occurrences(str, token, 1) IN
    CHOOSE S \in SUBSET Occ :
        \A p \in Occ : p \in S <=> \A q \in S : ~(q < p /\ p < q + Len(token))

\* str with every such occurrence replaced and every other code unit kept
ScanReplace(str, token, by) ==
    LET S == Replaced(str, token) IN
    concat([i \in 1..Len(str) |->
              IF i \in S THEN by
              ELSE IF \E q \in S : q < i /\ i < q + Len(token) THEN ""
              ELSE charAt(str, i)],
           1, Len(str))

\* the text with both upstream repository URLs replaced by the configured one
UpstreamReplaced(str, pkg) ==
    IF repoUrlOf(pkg) = "" THEN str
    ELSE ScanReplace(ScanReplace(str, UpstreamAtuline, repoUrlOf(pkg)),
                     UpstreamAircoookie, repoUrlOf(pkg))

\* C7 as stated: with a non-empty version, the result is the input with every
\* ##VERSION## replaced by the version (left to right, non-overlapping) and
\* all other text unchanged; for version 1.2.3 no ##VERSION## is left.
C7_OnlyVersionChanges ==
    (pc = "adopt.done" /\ packageJson.version # "") =>
        /\ adoptOut = ScanReplace(adoptIn, VersionToken, packageJson.version)
        /\ (packageJson.version = "1.2.3" => ~includes(adoptOut, VersionToken))

\* C7 amended: with a non-empty version, the result is the input with every
\* ##VERSION## replaced by the version (left to right, non-overlapping); the
\* only other text changed is the upstream repository URLs, replaced before
\* by the configured repository URL when there is one; for version 1.2.3 no
\* ##VERSION## is left.
C7_VersionAndRepoChange ==
    (pc = "adopt.done" /\ packageJson.version # "") =>
        /\ adoptOut = ScanReplace(UpstreamReplaced(adoptIn, packageJson),
                                  VersionToken, packageJson.version)
        /\ (packageJson.version = "1.2.3" => ~includes(adoptOut, VersionToken))

\* a text with two placeholders and an upstream URL went through, with
\* version 1.2.3 and a repository configured
C7_Witness ==
    /\ pc = "adopt.done"
    /\ packageJson.version = "1.2.3"
    /\ repoUrlOf(packageJson) = "https://github.com/Ecstxsy/WLED"
    /\ Cardinality(occurrences(adoptIn, VersionToken, 1)) >= 2
    /\ includes(adoptIn, UpstreamAircoookie)
    /\ includes(adoptOut, "1.2.3")
    /\ includes(adoptOut, "https://github.com/Ecstxsy/WLED")

---------------------------------------------------------------------------
(* Claims about specToChunk and writeChunks, under SpecChunks              *)

\* specToChunk has returned a text for the current spec
Returned == pc = "append" /\ ret # <<>>

\* the text between the first occurrence of open and the next close after it
between(text, open, close) ==
    LET p == indexOf(text, open, 1) + Len(open)
    IN  SubSeq(text, p, indexOf(text, close, p) - 1)

\* C1: for a binary spec and any file content, the value emitted as
\* <name>_length is the number of bytes of the file, which is the number of
\* byte literals in the emitted array.
C1_LengthIsByteCount ==
    (Returned /\ spec.method = "binary") =>
        /\ between(ret[1], spec.name \o "_length = ", ";") = ToString(Len(buf))
        /\ Cardinality(occurrences(ret[1], "0x", 1)) = Len(buf)

\* the complete chunk of a spec, "" when specToChunk gives none
ChunkOf(call, s) ==
    LET r == specToChunk(call.srcDir, s, disk, packageJson)
    IN  IF r.ret = <<>> THEN "" ELSE r.ret[1]

Readable(call, s) == disk[call.srcDir \o "/" \o s.file].exists

\* C2: whatever specs cannot be read, writeChunks does not abort; the output
\* file is written exactly once, after all specs were processed, and holds the
\* header followed by the complete chunks of exactly the readable specs, in
\* input order, with no text from a spec that failed.
C2_ReadableChunksOnly ==
    /\ thrown = ""
    /\ (writes # <<>> => stmt > 1)
    /\ (stmt > 1 =>
          /\ writes = <<script[1].resultFile>>
          /\ files[script[1].resultFile] =
               ChunksHeader
               \o concat([i \in 1..Len(script[1].specs) |->
                            IF Readable(script[1], script[1].specs[i])
                            THEN ChunkOf(script[1], script[1].specs[i])
                            ELSE ""],
                         1, Len(script[1].specs)))

\* C10: all the text writeChunks puts after the header is complete rendered
\* chunks of specs; a spec of another method than plaintext and binary adds
\* no text.
C10_OnlyChunksAfterHeader ==
    pc = "forEach" =>
        src = ChunksHeader
              \o concat([i \in 1..(k - 1) |-> ChunkOf(cur, cur.specs[i])], 1, k - 1)

\* C5: for a plaintext spec with no filter, the body of the raw string
\* literal is prefix + S(input) + suffix, S the render-context substitution:
\* the decoded text has the code units of the file's bytes, whatever the
\* bytes, and nothing else is changed.
C5_PlainBodyIsInput ==
    (Returned /\ spec.method = "plaintext" /\ spec.filter = <<>> /\ spec.mangle = "") =>
        /\ ret[1] = plaintextChunk(cur.srcDir, spec,
                                   adoptVersionAndRepo(decoded, packageJson))
        /\ codes(decoded) = buf

\* C9: the PAGE_settings transform turns every "%" of its input into "%%";
\* the only single "%" in its output are those of the injected %DMXMENU%.
C9_EveryPercentEscaped ==
    (Returned /\ spec.mangle = "settings") =>
        /\ ret[1] = strReplace(ScanReplace(wrapped, "%", "%%"),
                               "User Interface</button></form>",
                               "User Interface</button></form>%DMXMENU%")
        /\ ~includes(strReplace(strReplace(ret[1], "%DMXMENU%", ""), "%%", ""), "%")

\* the stages in the order the claim gives them, those the spec has
ClaimedStages(s) ==
    <<"read", "filter", "substitute">>
    \o (IF s.mangle # "" THEN <<"mangle">> ELSE <<>>) \o <<"wrap">>

\* C6 as stated: the stages of a plaintext spec run in the order named
\* filter, substitution, post-processing, wrapping; the post-processing gets
\* the filtered text only, so the provenance comment, the declaration and the
\* prefix and suffix reach the output as the template wrote them.
C6_MangleBeforeWrap ==
    (Returned /\ spec.method = "plaintext") =>
        /\ stages = ClaimedStages(spec)
        /\ startsWith(ret[1], SubSeq(wrapped, 1,
                                     indexOf(wrapped, "PROGMEM = R\"", 1) + 11 + Len(spec.prepend)))
        /\ endsWith(ret[1], spec.append \o "\";\n\n")

\* C6 amended: the stages of a plaintext spec run in the order substitution,
\* named filter, wrapping (prefix, suffix, declaration, provenance comment),
\* post-processing; the post-processing gets the whole wrapped chunk and its
\* result is the chunk returned.
C6_WrapBeforeMangle ==
    (Returned /\ spec.method = "plaintext") =>
        /\ stages = <<"read", "substitute", "filter", "wrap">>
                    \o (IF spec.mangle # "" THEN <<"mangle">> ELSE <<>>)
        /\ adopted = adoptVersionAndRepo(decoded, packageJson)
        /\ filterRet = namedFilter(adopted, spec.filter).value
        /\ wrapped = plaintextChunk(cur.srcDir, spec, filterRet)
        /\ ret[1] = (IF spec.mangle # "" THEN applyMangle(spec.mangle, wrapped)
                     ELSE wrapped)

\* the PAGE_dmxmap chunk was returned: its transform put the declaration and
\* its comment inside #ifdef, and the substitution changed the text filtered
C6_Witness ==
    /\ Returned /\ spec.method = "plaintext" /\ spec.mangle = "dmxmap"
    /\ startsWith(ret[1], "\n#ifdef WLED_ENABLE_DMX\n\n// Autogenerated from ")
    /\ includes(ret[1], "%DMXVARS%")
    /\ \E i \in 1..Len(cur.specs) :
         /\ cur.specs[i].name = "PAGE_update"
         /\ includes(toStringAscii(disk[cur.srcDir \o "/" \o cur.specs[i].file].data),
                     VersionToken)
         /\ packageJson.version # ""

---------------------------------------------------------------------------
(* Claims about the run, under Spec                                        *)

UiFile == "wled00/html_ui.h"
SettingsFile == "wled00/html_settings.h"
OtherFile == "wled00/html_other.h"

\* how many times a path was written
Written(file) == Cardinality({ i \in 1..Len(writes) : writes[i] = file })

\* C3: when the inliner or gzip reports an error, a fatal error is raised and
\* html_ui.h is not written; html_ui.h is written only after both succeeded,
\* and then once.
C3_FatalOrWritten ==
    /\ (inliner.state = "done" /\ inliner.error # "") =>
          (thrown # "" /\ Written(UiFile) = 0 /\ gzip.state = "idle")
    /\ (gzip.state = "done" /\ gzip.error # "") =>
          (thrown # "" /\ Written(UiFile) = 0)
    /\ Written(UiFile) <= 1
    /\ (Written(UiFile) = 1) =>
          /\ inliner.state = "done" /\ inliner.error = ""
          /\ gzip.state = "done" /\ gzip.error = ""
          /\ thrown = ""
          /\ UiFile \in DOMAIN files

\* gzip reported an error after the inliner had succeeded
C3_Witness ==
    /\ inliner.state = "done" /\ inliner.error = ""
    /\ gzip.state = "done" /\ gzip.error # ""
    /\ thrown = gzip.error

\* C4 as stated: writeHtmlGzipped is resolved (html_ui.h written or the fatal
\* error raised) before a writeChunks call writes its file, so after a fatal
\* error no chunk header has been written.
C4_UiResolvedFirst ==
    /\ (Written(SettingsFile) + Written(OtherFile) > 0) =>
          (Written(UiFile) = 1 \/ thrown # "")
    /\ (thrown # "") => Written(SettingsFile) + Written(OtherFile) = 0

\* C4 amended: writeHtmlGzipped only starts the inlining; both writeChunks
\* calls run to their end first, so html_ui.h is written, or the fatal error
\* raised, only after html_settings.h and html_other.h were written, in that
\* order.
C4_ChunksWrittenFirst ==
    /\ (Written(UiFile) > 0 \/ thrown # "" \/ inliner.state = "done") =>
          (Len(writes) >= 2 /\ writes[1] = SettingsFile /\ writes[2] = OtherFile)
    /\ (Len(writes) >= 1 => writes[1] = SettingsFile)
    /\ (Len(writes) >= 2 => writes[2] = OtherFile)

\* all three files are written, html_ui.h last
C4_Witness ==
    /\ writes = <<SettingsFile, OtherFile, UiFile>>
    /\ thrown = ""

=============================================================================
